---- MODULE Spec2Model ----
(***************************************************************************)
(* The per-module event runtime of bbot: bbot/modules/base.py, BaseModule. *)
(* One module instance, its incoming and outgoing queues, its worker       *)
(* tasks, and the scan controller that calls into it.  asyncio runs the    *)
(* tasks on one thread: an action is the code one task runs between two    *)
(* suspension points (an await that can actually suspend).                 *)
(***************************************************************************)
EXTENDS Integers, Sequences, FiniteSets, TLC

(***************************************************************************)
(* Bounds of the model.                                                    *)
(***************************************************************************)
MaxHandlers == 2
MaxIncoming == 2
MaxBatchIncoming == 3
MaxOutgoing == 2
MaxCallbacks == 2
AbortThreshold == 3

(***************************************************************************)
(* Python's None for a nullable attribute, and a present value.            *)
(***************************************************************************)
None == <<>>
Some(x) == <<x>>

(***************************************************************************)
(* Events.  An event carries what the admission filters read.              *)
(***************************************************************************)

Event(type, scope_distance, tags, source_type, module, whitelisted, priority) ==
    [type |-> type, scope_distance |-> scope_distance, tags |-> tags,
     source_type |-> source_type, module |-> module,
     whitelisted |-> whitelisted, priority |-> priority]

NoEvent == Event("", 0, {}, "", "", FALSE, 0)

\* the events the scan delivers to the module in the runtime specification
EvFinished == Event("FINISHED", 0, {}, "", "scan", TRUE, 3)
EvNear == Event("DNS_NAME", 0, {}, "", "other", TRUE, 3)
EvFar == Event("DNS_NAME", 2, {}, "", "other", TRUE, 1)
EvUnwatched == Event("URL_UNVERIFIED", 0, {}, "", "other", TRUE, 3)

Events == {EvFinished, EvNear, EvFar, EvUnwatched}

\* FINISHED events of every scope distance, tagged or not, whitelisted or not
FinishedEvents ==
    { Event("FINISHED", d, g, "", "scan", w, 3) :
        d \in {-1, 0, 2}, g \in {{}, {"target"}}, w \in BOOLEAN }

\* a FINISHED event every check after the first would reject
EvFinishedFar == Event("FINISHED", 2, {"target"}, "", "scan", FALSE, 3)

\* an address speculated from a range
EvSpeculated == Event("IP_ADDRESS", 0, {"target"}, "IP_RANGE", "speculate", TRUE, 3)

\* two events the default module accepts, and the events of the dispatch specification
EvA == Event("DNS_NAME", 0, {}, "", "a", TRUE, 3)
EvB == Event("DNS_NAME", 1, {}, "", "b", TRUE, 3)
DispatchEvents == {EvFinished, EvA, EvB}

\* a whitelisted target event at scope distance d, and the events of the scope
\* specification
EvAt(d) == Event("DNS_NAME", d, {"target"}, "", "other", TRUE, 3)
ScopeEvents == {EvAt(d) : d \in {-1, 0, 1, 2}}

\* the events the scan delivers in the admission specification
AdmissionEvents == {EvFinished, EvFinishedFar, EvFar, EvSpeculated}

(***************************************************************************)
(* The class attributes of a module (base.py 12-76) and the scan's         *)
(* settings the filters read.                                              *)
(***************************************************************************)
Module(watched_events, flags, scope_distance_modifier, target_only, in_scope_only, type, name, scope_search_distance) ==
    [watched_events |-> watched_events, flags |-> flags,
     scope_distance_modifier |-> scope_distance_modifier,
     target_only |-> target_only, in_scope_only |-> in_scope_only,
     _type |-> type, name |-> name,
     scope_search_distance |-> scope_search_distance]

\* the class defaults, with a subclass's watched_events, flags and name
DefaultModule == Module({"DNS_NAME"}, {"passive"}, Some(0), FALSE, FALSE, "scan", "mod", 1)

AllModules ==
    { Module(we, f, sdm, t, i, ty, n, 1) :
        we \in {{"DNS_NAME"}, {"*"}, {"IP_RANGE", "IP_ADDRESS"}},
        f \in {{"passive"}, {"active"}},
        sdm \in {None, Some(-1), Some(1)},
        t \in BOOLEAN, i \in BOOLEAN,
        ty \in {"scan", "output"}, n \in {"mod", "speculate"} }

(***************************************************************************)
(* The scan's helpers the module is built on.                              *)
(***************************************************************************)
\* scan.acatch(context=...): whether an error raised inside the block leaves it.
\* The scan's context manager logs the error and suppresses it
acatch(raised) == FALSE

\* TaskCounter as a context manager: the value on entering and on leaving the block
TaskCounter_enter(value) == value + 1
TaskCounter_exit(value) == value - 1

\* modules that watch every type, of every scope setting
ScopeModules ==
    { Module({"*"}, {"passive"}, sdm, t, i, ty, "mod", 1) :
        sdm \in {None, Some(-1), Some(0), Some(1)},
        t \in BOOLEAN, i \in BOOLEAN, ty \in {"scan", "output"} }

\* self, as the filters see it: the class attributes and the errored flag
Self(module, is_errored) == [module |-> module, errored |-> is_errored]

(***************************************************************************)
(* Admission filters.  Each returns (acceptable, reason); a reason is the  *)
(* sequence of the parts of its text, the empty text being <<>>.           *)
(***************************************************************************)
Verdict(acceptable, reason) == [acceptable |-> acceptable, reason |-> reason]

get_watched_events(self) == self.module.watched_events

\* str.startswith("URL") on the event types of the model
StartsWithURL(type) == type \in {"URL", "URL_UNVERIFIED"}

\* _event_precheck testing the error state before the FINISHED exception
_event_precheck_errored_first(self, event) ==
    IF self.errored
    THEN Verdict(FALSE, <<"module is in error state">>)
    ELSE Verdict(TRUE, <<>>)

\* _event_precheck without the rule for addresses speculated from a range
_event_precheck_no_cidr_rule(self, event) ==
    IF event.type \in {"FINISHED"}
    THEN Verdict(TRUE, <<>>)
    ELSE IF self.errored
    THEN Verdict(FALSE, <<"module is in error state">>)
    ELSE IF ~(\E t \in {"*", event.type} : t \in get_watched_events(self))
    THEN Verdict(FALSE, <<"its type is not in watched_events">>)
    ELSE IF self.module.target_only /\ "target" \notin event.tags
    THEN Verdict(FALSE, <<"it did not meet target_only filter criteria">>)
    ELSE Verdict(TRUE, <<>>)

_event_precheck(self, event) ==
    IF event.type \in {"FINISHED"}
    THEN Verdict(TRUE, <<>>)
    ELSE IF self.errored
    THEN Verdict(FALSE, <<"module is in error state">>)
    ELSE IF ~(\E t \in {"*", event.type} : t \in get_watched_events(self))
    THEN Verdict(FALSE, <<"its type is not in watched_events">>)
    ELSE IF self.module.target_only /\ "target" \notin event.tags
    THEN Verdict(FALSE, <<"it did not meet target_only filter criteria">>)
    ELSE IF StartsWithURL(event.type) /\ self.module.name # "httpx"
            /\ "httpx-only" \in event.tags
    THEN Verdict(FALSE, <<"its extension was listed in url_extension_httpx_only">>)
    ELSE IF /\ event.source_type = "IP_RANGE"
            /\ event.type = "IP_ADDRESS"
            /\ event.module = "speculate"
            /\ self.module.name # "speculate"
            /\ \A x \in {"IP_RANGE", "IP_ADDRESS"} : x \in self.module.watched_events
    THEN Verdict(FALSE, <<"module consumes IP ranges directly">>)
    ELSE Verdict(TRUE, <<>>)

Max(a, b) == IF a >= b THEN a ELSE b

\* max_scope_distance without the target_only case
max_scope_distance_in_scope_only(self) ==
    IF self.module.in_scope_only
    THEN 0
    ELSE Max(0, self.module.scope_search_distance + self.module.scope_distance_modifier[1])

max_scope_distance(self) ==
    IF self.module.in_scope_only \/ self.module.target_only
    THEN 0
    ELSE Max(0, self.module.scope_search_distance + self.module.scope_distance_modifier[1])

\* what filter_event can do: return a boolean, return (boolean, reason), or raise
FilterOutcome(kind, value) == [kind |-> kind, value |-> value]
FilterOutcomes ==
    { FilterOutcome(k, v) : k \in {"bool", "pair"}, v \in BOOLEAN }
        \cup { FilterOutcome("raise", FALSE) }

_custom_filter_criteria_msg == <<"it did not meet custom filter criteria">>

\* _event_postcheck up to the call of filter_event: the verdict it returns there,
\* or "undecided" when it goes on to filter_event
Undecided == [acceptable |-> FALSE, reason |-> <<"undecided">>]

postcheck_before_filter(self, event) ==
    IF event.type \in {"FINISHED"}
    THEN Verdict(TRUE, <<>>)
    ELSE IF "active" \in self.module.flags /\ "target" \in event.tags
            /\ ~event.whitelisted
    THEN Verdict(FALSE, <<"it is not in whitelist and module has active flag">>)
    ELSE IF self.module._type # "output" /\ self.module.in_scope_only
            /\ event.scope_distance > 0
    THEN Verdict(FALSE, <<"it did not meet in_scope_only filter criteria">>)
    ELSE IF self.module._type # "output" /\ self.module.scope_distance_modifier # None
            /\ event.scope_distance < 0
    THEN Verdict(FALSE, <<"its scope_distance is invalid.">>)
    ELSE IF self.module._type # "output" /\ self.module.scope_distance_modifier # None
            /\ event.scope_distance > max_scope_distance(self)
    THEN Verdict(FALSE, <<"its scope_distance exceeds the maximum allowed">>)
    ELSE Undecided

\* _event_postcheck from the return of filter_event on.  scan.acatch suppresses an
\* error filter_event raises, and the code after the block accepts the event.
postcheck_after_filter(outcome) ==
    IF outcome.kind = "raise" /\ ~acatch(TRUE)
    THEN Verdict(TRUE, <<>>)
    ELSE IF ~outcome.value
    THEN Verdict(FALSE, IF outcome.kind = "pair"
                        THEN _custom_filter_criteria_msg \o <<": ", "reason">>
                        ELSE _custom_filter_criteria_msg)
    ELSE Verdict(TRUE, <<>>)

_event_postcheck(self, event, outcome) ==
    IF postcheck_before_filter(self, event) # Undecided
    THEN postcheck_before_filter(self, event)
    ELSE postcheck_after_filter(outcome)


(***************************************************************************)
(* State.                                                                  *)
(***************************************************************************)
VARIABLES
    module,                 \* the class attributes the filters read
    batch_size,             \* class attribute batch_size
    _qsize,                 \* class attribute _qsize
    max_event_handlers,     \* class attribute max_event_handlers
    stopping,               \* scan.stopping
    errored,                \* self.errored
    _incoming_event_queue,  \* "None", "Queue" (the queue object) or "False"
    incoming,               \* the contents of the incoming queue object
    outgoing,               \* the contents of the outgoing queue
    task_counter,           \* self._task_counter.value
    _request_failures,      \* self._request_failures
    _cleanedup,             \* self._cleanedup
    cleanup_callbacks,      \* self.cleanup_callbacks
    _tasks,                 \* the workers start() created
    pc,                     \* where each worker task is suspended
    event,                  \* _worker / events_waiting: the event being checked
    events,                 \* events_waiting: the batch collected so far
    finish,                 \* events_waiting: the finish flag
    passed,                 \* whether post-check accepted each event the worker kept
    event_received,         \* the tasks waiting on self._event_received, oldest first
    event_dequeued,         \* the tasks waiting on self._event_dequeued, oldest first
    cleanup_todo,           \* _cleanup: the callbacks its loop has still to visit
    cleanup_running,        \* _cleanup: the callback it awaits, "" when none
    called,                 \* the cleanup callbacks invoked so far, in order
    setup_returned,         \* what _setup returned: (status, msg), NotSetUp before
    last                    \* the last call the controller made, and how it ended

vars == <<module, batch_size, _qsize, max_event_handlers, stopping, errored,
          _incoming_event_queue, incoming, outgoing, task_counter,
          _request_failures, _cleanedup, cleanup_callbacks, _tasks, pc, event,
          events, finish, passed, event_received, event_dequeued, cleanup_todo,
          cleanup_running, called, setup_returned, last>>

Workers == 1..MaxHandlers

\* the callbacks a module can register; "not_callable" is an entry that is no function
Callbacks == {"callback_a", "callback_b", "not_callable"}
callable(callback) == callback # "not_callable"

\* (status, msg) of _setup; a status is Python's True, False or None
SetupResult(status, msg) == [status |-> status, msg |-> msg]
NotSetUp == SetupResult("", "")

Call(op, arg, result) == [op |-> op, arg |-> arg, result |-> result]

\* an item of the outgoing queue: (event, kwargs), the event None when minting failed
OutgoingItems == {"event", "None"}

\* the items emit_event queues while scan.make_event finds every event valid
Minted == {"event"}

\* __init__, for a subclass's batch_size, _qsize and max_event_handlers
Constructed ==
    /\ batch_size \in {1, 2}
    /\ _qsize \in {0, 1}
    /\ max_event_handlers \in 1..MaxHandlers
    /\ stopping = FALSE
    /\ errored = FALSE
    /\ _incoming_event_queue = "None"
    /\ incoming = <<>>
    /\ outgoing = <<>>
    /\ task_counter = 0
    /\ _request_failures = 0
    /\ _cleanedup = FALSE
    /\ cleanup_callbacks = <<>>
    /\ _tasks = {}
    /\ pc = [w \in Workers |-> "unborn"]
    /\ event = [w \in Workers |-> NoEvent]
    /\ events = [w \in Workers |-> <<>>]
    /\ finish = [w \in Workers |-> FALSE]
    /\ passed = [w \in Workers |-> TRUE]
    /\ event_received = <<>>
    /\ event_dequeued = <<>>
    /\ cleanup_todo = <<>>
    /\ cleanup_running = ""
    /\ called = <<>>
    /\ setup_returned = NotSetUp
    /\ last = Call("", NoEvent, "")

Init ==
    /\ module = DefaultModule
    /\ Constructed

config == <<module, batch_size, _qsize, max_event_handlers>>

(***************************************************************************)
(* Queues and properties.                                                  *)
(***************************************************************************)
\* the getter creating a queue whenever the field is falsy (`if not self._...`)
incoming_event_queue_if_falsy ==
    IF _incoming_event_queue \in {"None", "False"} THEN "Queue" ELSE _incoming_event_queue

\* the incoming_event_queue property: creates the queue when the field is None
incoming_event_queue ==
    IF _incoming_event_queue = "None" THEN "Queue" ELSE _incoming_event_queue

\* a queue object is truthy, the False sentinel is not
Truthy(queue) == queue # "False"

\* PriorityQueue.put_nowait: lower priority first, arrival order within a priority
RECURSIVE PriorityPut(_, _)
PriorityPut(queue, item) ==
    IF queue = <<>> THEN <<item>>
    ELSE IF Head(queue).priority <= item.priority
    THEN <<Head(queue)>> \o PriorityPut(Tail(queue), item)
    ELSE <<item>> \o queue

num_incoming_events == IF Truthy(incoming_event_queue) THEN Len(incoming) ELSE 0

running == task_counter > 0

finished == ~running /\ num_incoming_events <= 0 /\ Len(outgoing) <= 0

\* the user callbacks in flight: each worker awaits at most one, and so does _cleanup
InCallback(w) == pc[w] \in {"handle_event", "handle_batch", "finish", "report"}
InFlight ==
    Cardinality({w \in Workers : InCallback(w)})
        + (IF cleanup_running # "" THEN 1 ELSE 0)

(***************************************************************************)
(* set_error_state, as the part of a step that runs it.                    *)
(***************************************************************************)
set_error_state ==
    IF ~errored
    THEN /\ errored' = TRUE
         /\ IF Truthy(incoming_event_queue)
            THEN /\ incoming' = <<>>
                 /\ _incoming_event_queue' = "False"
            ELSE /\ incoming' = incoming
                 /\ _incoming_event_queue' = incoming_event_queue
    ELSE UNCHANGED <<errored, incoming, _incoming_event_queue>>


(***************************************************************************)
(* The controller's calls.                                                 *)
(***************************************************************************)
worker_vars == <<pc, event, events, finish, passed>>
cleanup_vars == <<_cleanedup, cleanup_callbacks, cleanup_todo, cleanup_running, called>>

\* start() creating a worker for every handler slot, whatever max_event_handlers is
start_every_slot ==
    /\ setup_returned.status = "True"
    /\ _tasks = {}
    /\ _tasks' = Workers
    /\ pc' = [w \in Workers |-> "loop"]
    /\ UNCHANGED <<config, setup_returned, stopping, errored, _incoming_event_queue, incoming, outgoing,
                   task_counter, _request_failures, cleanup_vars, event, events,
                   finish, passed, event_received, event_dequeued, last>>

\* start(): one worker task per max_event_handlers.  The scan starts a module once,
\* and only one whose _setup returned the status True
start ==
    /\ setup_returned.status = "True"
    /\ _tasks = {}
    /\ _tasks' = 1..max_event_handlers
    /\ pc' = [w \in Workers |-> IF w \in 1..max_event_handlers THEN "loop" ELSE pc[w]]
    /\ UNCHANGED <<config, setup_returned, stopping, errored, _incoming_event_queue, incoming, outgoing,
                   task_counter, _request_failures, cleanup_vars, event, events,
                   finish, passed, event_received, event_dequeued, last>>

\* the scan sets scan.stopping
stop ==
    /\ ~stopping
    /\ stopping' = TRUE
    /\ UNCHANGED <<config, setup_returned, errored, _incoming_event_queue, incoming, outgoing,
                   task_counter, _request_failures, cleanup_vars, _tasks, worker_vars,
                   event_received, event_dequeued, last>>

\* Condition.notify(): the oldest waiting task is woken and goes on with its loop
Notify(waiters, at) ==
    IF waiters = <<>> THEN pc
    ELSE [pc EXCEPT ![Head(waiters)] = at]

\* queue_event without its pre-check
queue_event_outcome_unchecked(e) ==
    IF _incoming_event_queue = "False" THEN "disabled" ELSE "enqueued"

\* what queue_event does with the event: "disabled" (queue unusable), "rejected"
\* (pre-check), or "enqueued"
queue_event_outcome(e) ==
    IF incoming_event_queue \in {"None", "False"} THEN "disabled"
    ELSE IF ~_event_precheck(Self(module, errored), e).acceptable THEN "rejected"
    ELSE "enqueued"

\* queue_event(e), the queue holding fewer than `bound` events
queue_event_upto(e, bound) ==
    /\ Len(incoming) < bound
    /\ _incoming_event_queue' = incoming_event_queue
    /\ IF queue_event_outcome(e) = "enqueued"
       THEN /\ incoming' = PriorityPut(incoming, e)
            /\ pc' = Notify(event_received, "loop")
            /\ event_received' = IF event_received = <<>> THEN <<>> ELSE Tail(event_received)
       ELSE UNCHANGED <<incoming, pc, event_received>>
    /\ last' = Call("queue_event", e, queue_event_outcome(e))
    /\ UNCHANGED <<config, setup_returned, stopping, errored, outgoing, task_counter, _request_failures,
                   cleanup_vars, _tasks, event, events, finish, passed, event_dequeued>>

queue_event(e) == queue_event_upto(e, MaxIncoming)

\* dequeue_outgoing_event(): get() takes one item; then `with self._event_dequeued:`
\* raises, an asyncio.Condition being no synchronous context manager, and
\* notify() is never reached
dequeue_outgoing_event ==
    /\ outgoing # <<>>
    /\ outgoing' = Tail(outgoing)
    /\ last' = Call("dequeue_outgoing_event", NoEvent, "raised")
    /\ UNCHANGED <<config, setup_returned, stopping, errored, _incoming_event_queue, incoming,
                   task_counter, _request_failures, cleanup_vars, _tasks, worker_vars,
                   event_received, event_dequeued>>

\* set_error_state(), called by the controller or by the module's own code
SetErrorState ==
    /\ set_error_state
    /\ UNCHANGED <<config, setup_returned, stopping, outgoing, task_counter, _request_failures,
                   cleanup_vars, _tasks, worker_vars, event_received, event_dequeued,
                   last>>

\* request_with_fail_count lifting the error state with the failure count
request_with_fail_count_recovers(is_none) ==
    /\ is_none => _request_failures <= AbortThreshold
    /\ _request_failures' = IF is_none THEN _request_failures + 1 ELSE 0
    /\ errored' = (_request_failures' >= AbortThreshold)
    /\ UNCHANGED <<incoming, _incoming_event_queue>>
    /\ last' = Call("request_with_fail_count", NoEvent, IF is_none THEN "None" ELSE "response")
    /\ UNCHANGED <<config, setup_returned, stopping, outgoing, task_counter, cleanup_vars, _tasks,
                   worker_vars, event_received, event_dequeued>>

\* request_with_fail_count never resetting the count: it counts every None
request_with_fail_count_no_reset(is_none) ==
    /\ is_none => _request_failures <= AbortThreshold
    /\ _request_failures' = IF is_none THEN _request_failures + 1 ELSE _request_failures
    /\ IF _request_failures' >= AbortThreshold
       THEN set_error_state
       ELSE UNCHANGED <<errored, incoming, _incoming_event_queue>>
    /\ last' = Call("request_with_fail_count", NoEvent, IF is_none THEN "None" ELSE "response")
    /\ UNCHANGED <<config, setup_returned, stopping, outgoing, task_counter, cleanup_vars, _tasks,
                   worker_vars, event_received, event_dequeued>>

\* request_with_fail_count(): the response is None (is_none) or a response
request_with_fail_count(is_none) ==
    /\ is_none => _request_failures <= AbortThreshold
    /\ _request_failures' = IF is_none THEN _request_failures + 1 ELSE 0
    /\ IF _request_failures' >= AbortThreshold
       THEN set_error_state
       ELSE UNCHANGED <<errored, incoming, _incoming_event_queue>>
    /\ last' = Call("request_with_fail_count", NoEvent, IF is_none THEN "None" ELSE "response")
    /\ UNCHANGED <<config, setup_returned, stopping, outgoing, task_counter, cleanup_vars, _tasks,
                   worker_vars, event_received, event_dequeued>>


(***************************************************************************)
(* _setup.                                                                 *)
(***************************************************************************)
\* what setup() can do: return a status, return (status, msg), or raise an error,
\* whose text then stands in the status field
SetupOutcome(kind, status) == [kind |-> kind, status |-> status]
SetupOutcomes ==
    { SetupOutcome(k, st) : k \in {"status", "pair"}, st \in {"True", "False", "None"} }
        \cup { SetupOutcome("Exception", "boom"), SetupOutcome("WordlistError", "missing list") }

status_codes(status) ==
    CASE status = "False" -> "hard-fail"
      [] status = "None" -> "soft-fail"
      [] status = "True" -> "success"

\* _setup treating every error alike: a WordlistError hard-fails too
_setup_hard_fails(outcome) ==
    /\ setup_returned = NotSetUp
    /\ IF outcome.kind \in {"Exception", "WordlistError"}
       THEN /\ set_error_state
            /\ setup_returned' = SetupResult("False", outcome.status)
       ELSE /\ setup_returned' =
                   SetupResult(outcome.status,
                               IF outcome.kind = "pair" THEN "msg"
                               ELSE status_codes(outcome.status))
            /\ UNCHANGED <<errored, incoming, _incoming_event_queue>>
    /\ last' = Call("_setup", outcome, "returned")
    /\ UNCHANGED <<config, stopping, outgoing, task_counter, _request_failures,
                   cleanup_vars, _tasks, worker_vars, event_received, event_dequeued>>

\* _setup, once, before the module is started; outcome is what setup() does
_setup(outcome) ==
    /\ setup_returned = NotSetUp
    /\ IF outcome.kind \in {"Exception", "WordlistError"}
       THEN /\ set_error_state
            /\ setup_returned' =
                   SetupResult(IF outcome.kind = "WordlistError" THEN "None" ELSE "False",
                               outcome.status)
       ELSE /\ setup_returned' =
                   SetupResult(outcome.status,
                               IF outcome.kind = "pair" THEN "msg"
                               ELSE status_codes(outcome.status))
            /\ UNCHANGED <<errored, incoming, _incoming_event_queue>>
    /\ last' = Call("_setup", outcome, "returned")
    /\ UNCHANGED <<config, stopping, outgoing, task_counter, _request_failures,
                   cleanup_vars, _tasks, worker_vars, event_received, event_dequeued>>

(***************************************************************************)
(* _cleanup.                                                               *)
(***************************************************************************)
\* a module's code appends a callback to self.cleanup_callbacks
register_cleanup_callback(callback) ==
    /\ Len(cleanup_callbacks) < MaxCallbacks
    /\ cleanup_callbacks' = Append(cleanup_callbacks, callback)
    /\ UNCHANGED <<config, setup_returned, stopping, errored, _incoming_event_queue, incoming, outgoing,
                   task_counter, _request_failures, _cleanedup, cleanup_todo,
                   cleanup_running, called, _tasks, worker_vars, event_received,
                   event_dequeued, last>>

\* the entries the loop passes over: `if callable(callback)` is false
RECURSIVE SkipNotCallable(_)
SkipNotCallable(callbacks) ==
    IF callbacks # <<>> /\ ~callable(Head(callbacks))
    THEN SkipNotCallable(Tail(callbacks))
    ELSE callbacks

\* the loop of _cleanup over `callbacks`, up to its next await: the next callable
\* entry is invoked inside `with self._task_counter`
cleanup_loop(callbacks, counter) ==
    LET rest == SkipNotCallable(callbacks) IN
    IF rest = <<>>
    THEN /\ cleanup_running' = ""
         /\ cleanup_todo' = <<>>
         /\ task_counter' = counter
         /\ UNCHANGED called
    ELSE /\ cleanup_running' = Head(rest)
         /\ cleanup_todo' = Tail(rest)
         /\ task_counter' = TaskCounter_enter(counter)
         /\ called' = Append(called, Head(rest))

\* the callbacks _cleanup is to run: [self.cleanup] + self.cleanup_callbacks
cleanup_list == <<"cleanup">> \o cleanup_callbacks

\* _cleanup without the assignment that sets the latch
_cleanup_unlatched ==
    /\ cleanup_running = ""
    /\ UNCHANGED _cleanedup
    /\ cleanup_loop(cleanup_list, task_counter)
    /\ last' = Call("_cleanup", NoEvent, "first")
    /\ UNCHANGED <<config, setup_returned, stopping, errored, _incoming_event_queue, incoming, outgoing,
                   _request_failures, cleanup_callbacks, _tasks, worker_vars,
                   event_received, event_dequeued>>

_cleanup ==
    /\ IF ~_cleanedup
       THEN /\ _cleanedup' = TRUE
            /\ cleanup_loop(cleanup_list, task_counter)
            /\ last' = Call("_cleanup", NoEvent, "first")
       ELSE /\ UNCHANGED <<_cleanedup, cleanup_todo, cleanup_running, called, task_counter>>
            /\ last' = Call("_cleanup", NoEvent, "again")
    /\ UNCHANGED <<config, setup_returned, stopping, errored, _incoming_event_queue, incoming, outgoing,
                   _request_failures, cleanup_callbacks, _tasks, worker_vars,
                   event_received, event_dequeued>>

\* the callback _cleanup awaits returns or raises (scan.acatch suppresses the
\* error); the counter is released and the loop goes on
cleanup_callback_ends(raised) ==
    /\ cleanup_running # ""
    /\ cleanup_loop(IF acatch(raised) THEN <<>> ELSE cleanup_todo,
                    TaskCounter_exit(task_counter))
    /\ UNCHANGED <<config, setup_returned, stopping, errored, _incoming_event_queue, incoming, outgoing,
                   _request_failures, _cleanedup, cleanup_callbacks, _tasks, worker_vars,
                   event_received, event_dequeued, last>>

(***************************************************************************)
(* The worker: _worker, _handle_batch, events_waiting.                     *)
(***************************************************************************)
\* the single-event arm dispatching without looking at the verdict
worker_dispatch_unchecked(e, verdict) ==
    IF e.type = "FINISHED" THEN "finish" ELSE "handle_event"

\* lines 334-345: what the single-event arm does with a checked event
worker_dispatch(e, verdict) ==
    IF verdict.acceptable
    THEN IF e.type = "FINISHED" THEN "finish" ELSE "handle_event"
    ELSE "loop"

\* the single-event arm from the verdict on e to its next suspension point: the
\* callback is entered inside `with self._task_counter`
single_arm(w, e, verdict) ==
    LET to == worker_dispatch(e, verdict) IN
    /\ pc' = [pc EXCEPT ![w] = to]
    /\ event' = [event EXCEPT ![w] = IF to = "loop" THEN NoEvent ELSE e]
    /\ passed' = [passed EXCEPT ![w] = to = "loop" \/ verdict.acceptable]
    /\ task_counter' = IF to = "loop" THEN task_counter
                       ELSE TaskCounter_enter(task_counter)

\* the single-event arm from the dequeue of e: post-check returns at once, or
\* suspends in filter_event
single_arm_gets(w, e) ==
    IF postcheck_before_filter(Self(module, errored), e) = Undecided
    THEN /\ pc' = [pc EXCEPT ![w] = "filter_event"]
         /\ event' = [event EXCEPT ![w] = e]
         /\ UNCHANGED <<task_counter, passed>>
    ELSE single_arm(w, e, postcheck_before_filter(Self(module, errored), e))

\* the gate closing one item late (> for >=)
outgoing_over_full == _qsize > 0 /\ Len(outgoing) > _qsize

\* line 313: the backpressure gate
outgoing_full == _qsize > 0 /\ Len(outgoing) >= _qsize

\* top of the loop, scan.stopping set: the worker ends
worker_stops(w) ==
    /\ pc[w] = "loop"
    /\ stopping
    /\ pc' = [pc EXCEPT ![w] = "ended"]
    /\ UNCHANGED <<config, setup_returned, stopping, errored, _incoming_event_queue,
                   incoming, outgoing, task_counter, _request_failures, cleanup_vars,
                   _tasks, event, events, finish, passed, event_received,
                   event_dequeued, last>>

\* top of the loop, outgoing queue full: wait on event_dequeued
worker_holds(w) ==
    /\ pc[w] = "loop"
    /\ ~stopping
    /\ outgoing_full
    /\ pc' = [pc EXCEPT ![w] = "event_dequeued.wait"]
    /\ event_dequeued' = Append(event_dequeued, w)
    /\ UNCHANGED <<config, setup_returned, stopping, errored, _incoming_event_queue,
                   incoming, outgoing, task_counter, _request_failures, cleanup_vars,
                   _tasks, event, events, finish, passed, event_received, last>>

\* single-event arm: dequeue (or block in get(), or return on a disabled queue)
worker_gets(w) ==
    /\ pc[w] = "loop"
    /\ ~stopping
    /\ ~outgoing_full
    /\ batch_size <= 1
    /\ _incoming_event_queue' = incoming_event_queue
    /\ IF ~Truthy(incoming_event_queue)
       THEN /\ pc' = [pc EXCEPT ![w] = "ended"]
            /\ UNCHANGED <<incoming, event, task_counter, passed>>
       ELSE IF incoming = <<>>
       THEN /\ pc' = [pc EXCEPT ![w] = "get"]
            /\ UNCHANGED <<incoming, event, task_counter, passed>>
       ELSE /\ incoming' = Tail(incoming)
            /\ single_arm_gets(w, Head(incoming))
    /\ UNCHANGED <<config, setup_returned, stopping, errored, outgoing,
                   _request_failures, cleanup_vars, _tasks, events, finish,
                   event_received, event_dequeued, last>>

\* a worker blocked in get() on the queue object takes an item put since
worker_get_returns(w) ==
    /\ pc[w] = "get"
    /\ incoming # <<>>
    /\ incoming' = Tail(incoming)
    /\ single_arm_gets(w, Head(incoming))
    /\ UNCHANGED <<config, setup_returned, stopping, errored, _incoming_event_queue,
                   outgoing, _request_failures, cleanup_vars, _tasks, events, finish,
                   event_received, event_dequeued, last>>

\* events_waiting raising the finish flag for every accepted event
batch_collect_flags_any(batch, e, verdict) ==
    IF verdict.acceptable
    THEN [events |-> IF e.type = "FINISHED" THEN batch.events ELSE Append(batch.events, e),
          finish |-> TRUE, passed |-> batch.passed /\ verdict.acceptable]
    ELSE batch

\* lines 265-269: what events_waiting does with a checked event
batch_collect(batch, e, verdict) ==
    IF verdict.acceptable
    THEN IF e.type = "FINISHED"
         THEN [events |-> batch.events, finish |-> TRUE,
               passed |-> batch.passed /\ verdict.acceptable]
         ELSE [events |-> Append(batch.events, e), finish |-> batch.finish,
               passed |-> batch.passed /\ verdict.acceptable]
    ELSE batch

\* events_waiting testing the batch one event late (batch_size + 1 for batch_size)
RECURSIVE events_waiting_one_late(_, _)
events_waiting_one_late(batch, queue) ==
    IF ~Truthy(incoming_event_queue) \/ Len(batch.events) > batch_size + 1 \/ queue = <<>>
    THEN [at |-> "return", batch |-> batch, report |-> FALSE,
          event |-> NoEvent, queue |-> queue]
    ELSE IF postcheck_before_filter(Self(module, errored), Head(queue)) = Undecided
    THEN [at |-> "filter_event", batch |-> batch, report |-> FALSE,
          event |-> Head(queue), queue |-> Tail(queue)]
    ELSE events_waiting_one_late(
             batch_collect(batch, Head(queue),
                           postcheck_before_filter(Self(module, errored), Head(queue))),
             Tail(queue))

\* the loop of events_waiting from its head, up to the next suspension point: it
\* returns (events, finish, report) or stops in filter_event for `event`
RECURSIVE events_waiting(_, _)
events_waiting(batch, queue) ==
    IF ~Truthy(incoming_event_queue) \/ Len(batch.events) > batch_size \/ queue = <<>>
    THEN [at |-> "return", batch |-> batch, report |-> FALSE,
          event |-> NoEvent, queue |-> queue]
    ELSE IF postcheck_before_filter(Self(module, errored), Head(queue)) = Undecided
    THEN [at |-> "filter_event", batch |-> batch, report |-> FALSE,
          event |-> Head(queue), queue |-> Tail(queue)]
    ELSE events_waiting(
             batch_collect(batch, Head(queue),
                           postcheck_before_filter(Self(module, errored), Head(queue))),
             Tail(queue))

\* lines 213-226: what _handle_batch does first with what events_waiting returned;
\* "event_received.wait" is its return with nothing submitted
handle_batch_dispatch(batch, report) ==
    IF errored THEN "event_received.wait"
    ELSE IF batch.events # <<>> THEN "handle_batch"
    ELSE IF batch.finish THEN "finish"
    ELSE IF report THEN "report"
    ELSE "event_received.wait"

\* _handle_batch once events_waiting has returned, up to the next suspension point
after_events_waiting(w, r) ==
    LET to == handle_batch_dispatch(r.batch, r.report) IN
    /\ pc' = [pc EXCEPT ![w] = to]
    /\ event' = [event EXCEPT ![w] = NoEvent]
    /\ events' = [events EXCEPT ![w] = IF to = "event_received.wait" THEN <<>>
                                       ELSE r.batch.events]
    /\ finish' = [finish EXCEPT ![w] = IF to = "handle_batch" THEN r.batch.finish
                                       ELSE FALSE]
    /\ passed' = [passed EXCEPT ![w] = to = "event_received.wait" \/ r.batch.passed]
    /\ task_counter' = IF to = "handle_batch" THEN TaskCounter_enter(task_counter)
                       ELSE task_counter
    /\ event_received' = IF to = "event_received.wait"
                         THEN Append(event_received, w) ELSE event_received

\* events_waiting from its loop head on, then the rest of _handle_batch
batch_arm(w, batch) ==
    LET r == events_waiting(batch, incoming) IN
    /\ incoming' = r.queue
    /\ IF r.at = "filter_event"
       THEN /\ pc' = [pc EXCEPT ![w] = "filter_event"]
            /\ event' = [event EXCEPT ![w] = r.event]
            /\ events' = [events EXCEPT ![w] = r.batch.events]
            /\ finish' = [finish EXCEPT ![w] = r.batch.finish]
            /\ passed' = [passed EXCEPT ![w] = r.batch.passed]
            /\ UNCHANGED <<task_counter, event_received>>
       ELSE after_events_waiting(w, r)

\* batch arm: _handle_batch from its start
worker_handles_batch(w) ==
    /\ pc[w] = "loop"
    /\ ~stopping
    /\ ~outgoing_full
    /\ batch_size > 1
    /\ _incoming_event_queue' = incoming_event_queue
    /\ IF num_incoming_events > 0
       THEN batch_arm(w, [events |-> <<>>, finish |-> FALSE, passed |-> TRUE])
       ELSE /\ pc' = [pc EXCEPT ![w] = "event_received.wait"]
            /\ event_received' = Append(event_received, w)
            /\ UNCHANGED <<incoming, event, events, finish, passed, task_counter>>
    /\ UNCHANGED <<config, setup_returned, stopping, errored, outgoing,
                   _request_failures, cleanup_vars, _tasks, event_dequeued, last>>

\* filter_event returns or raises: the rest of _event_postcheck, then the arm goes on
filter_event_ends(w, outcome) ==
    /\ pc[w] = "filter_event"
    /\ IF batch_size > 1
       THEN batch_arm(w, batch_collect([events |-> events[w], finish |-> finish[w],
                                        passed |-> passed[w]],
                                       event[w], postcheck_after_filter(outcome)))
       ELSE /\ single_arm(w, event[w], postcheck_after_filter(outcome))
            /\ UNCHANGED <<incoming, events, finish, event_received>>
    /\ UNCHANGED <<config, setup_returned, stopping, errored, _incoming_event_queue,
                   outgoing, _request_failures, cleanup_vars, _tasks, event_dequeued,
                   last>>

\* a callback in flight calls emit_event: make_event mints the event, or returns
\* None on a validation error, and queue_outgoing_event puts what it returned
emit_event(w, item) ==
    /\ InCallback(w)
    /\ Len(outgoing) < MaxOutgoing
    /\ outgoing' = Append(outgoing, item)
    /\ UNCHANGED <<config, setup_returned, stopping, errored, _incoming_event_queue,
                   incoming, task_counter, _request_failures, cleanup_vars, _tasks,
                   worker_vars, event_received, event_dequeued, last>>

\* handle_event ending with the counter released only on a normal return
callback_ends_leaks(w, raised) ==
    /\ pc[w] \in {"handle_event", "finish"}
    /\ batch_size <= 1
    /\ task_counter' = IF raised THEN task_counter ELSE TaskCounter_exit(task_counter)
    /\ pc' = [pc EXCEPT ![w] = "loop"]
    /\ event' = [event EXCEPT ![w] = NoEvent]
    /\ UNCHANGED <<config, setup_returned, stopping, errored, _incoming_event_queue,
                   incoming, outgoing, _request_failures, cleanup_vars, _tasks, events,
                   finish, passed, event_received, event_dequeued, last>>

\* handle_event, or finish in the single-event arm, returns or raises: the counter
\* is released either way, and an error that left the acatch block would end _worker
callback_ends(w, raised) ==
    /\ pc[w] \in {"handle_event", "finish"}
    /\ batch_size <= 1
    /\ task_counter' = TaskCounter_exit(task_counter)
    /\ pc' = [pc EXCEPT ![w] = IF acatch(raised) THEN "ended" ELSE "loop"]
    /\ event' = [event EXCEPT ![w] = NoEvent]
    /\ UNCHANGED <<config, setup_returned, stopping, errored, _incoming_event_queue,
                   incoming, outgoing, _request_failures, cleanup_vars, _tasks, events,
                   finish, passed, event_received, event_dequeued, last>>

\* handle_batch returns or raises: finish or report next, or back to the loop
handle_batch_ends(w, raised) ==
    /\ pc[w] = "handle_batch"
    /\ task_counter' = TaskCounter_exit(task_counter)
    /\ pc' = [pc EXCEPT ![w] = IF acatch(raised) THEN "ended"
                               ELSE IF finish[w] THEN "finish" ELSE "loop"]
    /\ events' = [events EXCEPT ![w] = IF finish[w] THEN events[w] ELSE <<>>]
    /\ finish' = [finish EXCEPT ![w] = FALSE]
    /\ UNCHANGED <<config, setup_returned, stopping, errored, _incoming_event_queue,
                   incoming, outgoing, _request_failures, cleanup_vars, _tasks, event,
                   passed, event_received, event_dequeued, last>>

\* finish (or report) of the batch arm returns or raises: _handle_batch returns
\* submitted, and the worker waits on event_received when it is false
batch_finish_ends(w, raised) ==
    /\ pc[w] \in {"finish", "report"}
    /\ batch_size > 1
    /\ pc' = [pc EXCEPT ![w] = IF acatch(raised) THEN "ended"
                               ELSE IF events[w] # <<>> THEN "loop"
                               ELSE "event_received.wait"]
    /\ event_received' = IF events[w] # <<>> \/ acatch(raised) THEN event_received
                         ELSE Append(event_received, w)
    /\ events' = [events EXCEPT ![w] = <<>>]
    /\ UNCHANGED <<config, setup_returned, stopping, errored, _incoming_event_queue,
                   incoming, outgoing, task_counter, _request_failures, cleanup_vars,
                   _tasks, event, finish, passed, event_dequeued, last>>

_worker(w) ==
    \/ worker_stops(w)
    \/ worker_holds(w)
    \/ worker_gets(w)
    \/ worker_get_returns(w)
    \/ worker_handles_batch(w)
    \/ \E outcome \in FilterOutcomes : filter_event_ends(w, outcome)
    \/ \E item \in Minted : emit_event(w, item)
    \/ \E raised \in BOOLEAN : callback_ends(w, raised)
    \/ \E raised \in BOOLEAN : handle_batch_ends(w, raised)
    \/ \E raised \in BOOLEAN : batch_finish_ends(w, raised)

\* the module's workers and the controller's calls into it
Next ==
    \/ \E outcome \in SetupOutcomes : _setup(outcome)
    \/ start
    \/ stop
    \/ \E e \in Events : queue_event(e)
    \/ dequeue_outgoing_event
    \/ SetErrorState
    \/ \E w \in Workers : _worker(w)

Spec == Init /\ [][Next]_vars

\* the same with the module's requests and its cleanup, for one worker
LifecycleInit ==
    /\ Init
    /\ max_event_handlers = 1

LifecycleNext ==
    \/ Next
    \/ \E is_none \in BOOLEAN : request_with_fail_count(is_none)
    \/ _cleanup
    \/ \E raised \in BOOLEAN : cleanup_callback_ends(raised)

LifecycleSpec == LifecycleInit /\ [][LifecycleNext]_vars

\* cleanup of a module that registers cleanup callbacks, its workers not started
CleanupNext ==
    \/ \E callback \in Callbacks : register_cleanup_callback(callback)
    \/ \E e \in Events : queue_event(e)
    \/ SetErrorState
    \/ \E is_none \in BOOLEAN : request_with_fail_count(is_none)
    \/ _cleanup
    \/ \E raised \in BOOLEAN : cleanup_callback_ends(raised)

CleanupInit ==
    /\ Init
    /\ batch_size = 1
    /\ _qsize = 0
    /\ max_event_handlers = 1

CleanupSpec == CleanupInit /\ [][CleanupNext]_vars

\* one worker of a module of any class attributes, its handlers emitting nothing
AdmissionInit ==
    /\ module \in AllModules
    /\ Constructed
    /\ _qsize = 0
    /\ max_event_handlers = 1

\* setup() returns True, or raises
AdmissionSetups == {SetupOutcome("status", "True"), SetupOutcome("Exception", "boom")}

AdmissionNext ==
    \/ \E outcome \in AdmissionSetups : _setup(outcome)
    \/ start
    \/ \E e \in AdmissionEvents : queue_event(e)
    \/ SetErrorState
    \/ \E w \in Workers : worker_gets(w)
    \/ \E w \in Workers : worker_get_returns(w)
    \/ \E w \in Workers : worker_handles_batch(w)
    \/ \E w \in Workers, outcome \in FilterOutcomes : filter_event_ends(w, outcome)
    \/ \E w \in Workers, raised \in BOOLEAN : callback_ends(w, raised)
    \/ \E w \in Workers, raised \in BOOLEAN : handle_batch_ends(w, raised)
    \/ \E w \in Workers, raised \in BOOLEAN : batch_finish_ends(w, raised)

AdmissionSpec == AdmissionInit /\ [][AdmissionNext]_vars

\* the setup of a module, whatever setup() does, and what the scan does next
SetupNext ==
    \/ \E outcome \in SetupOutcomes : _setup(outcome)
    \/ start
    \/ stop
    \/ \E e \in Events : queue_event(e)
    \/ SetErrorState
    \/ \E w \in Workers : worker_stops(w)
    \/ \E w \in Workers : worker_gets(w)
    \/ \E w \in Workers : worker_handles_batch(w)

SetupSpec == Init /\ [][SetupNext]_vars

\* one single-event worker whose callbacks emit events, scan.make_event finding some
\* of them invalid
EmitInit ==
    /\ Init
    /\ batch_size = 1
    /\ max_event_handlers = 1

EmitNext ==
    \/ \E outcome \in AdmissionSetups : _setup(outcome)
    \/ start
    \/ \E e \in Events : queue_event(e)
    \/ dequeue_outgoing_event
    \/ \E w \in Workers : worker_holds(w)
    \/ \E w \in Workers : worker_gets(w)
    \/ \E w \in Workers : worker_get_returns(w)
    \/ \E w \in Workers, outcome \in FilterOutcomes : filter_event_ends(w, outcome)
    \/ \E w \in Workers, item \in OutgoingItems : emit_event(w, item)
    \/ \E w \in Workers, raised \in BOOLEAN : callback_ends(w, raised)

EmitSpec == EmitInit /\ [][EmitNext]_vars

\* one worker of a module of any scope setting, fed events of every scope distance
ScopeInit ==
    /\ module \in ScopeModules
    /\ Constructed
    /\ _qsize = 0
    /\ max_event_handlers = 1

ScopeNext ==
    \/ \E outcome \in AdmissionSetups : _setup(outcome)
    \/ start
    \/ \E e \in ScopeEvents : queue_event(e)
    \/ \E w \in Workers : worker_gets(w)
    \/ \E w \in Workers : worker_get_returns(w)
    \/ \E w \in Workers : worker_handles_batch(w)
    \/ \E w \in Workers, outcome \in FilterOutcomes : filter_event_ends(w, outcome)
    \/ \E w \in Workers, raised \in BOOLEAN : callback_ends(w, raised)
    \/ \E w \in Workers, raised \in BOOLEAN : handle_batch_ends(w, raised)

ScopeSpec == ScopeInit /\ [][ScopeNext]_vars

\* the workers of a module with no outgoing limit, whose handlers emit nothing,
\* fed up to MaxBatchIncoming events at a time
DispatchInit ==
    /\ Init
    /\ _qsize = 0

DispatchNext ==
    \/ \E outcome \in AdmissionSetups : _setup(outcome)
    \/ start
    \/ \E e \in DispatchEvents : queue_event_upto(e, MaxBatchIncoming)
    \/ SetErrorState
    \/ \E w \in Workers : worker_gets(w)
    \/ \E w \in Workers : worker_get_returns(w)
    \/ \E w \in Workers : worker_handles_batch(w)
    \/ \E w \in Workers, outcome \in FilterOutcomes : filter_event_ends(w, outcome)
    \/ \E w \in Workers, raised \in BOOLEAN : callback_ends(w, raised)
    \/ \E w \in Workers, raised \in BOOLEAN : handle_batch_ends(w, raised)
    \/ \E w \in Workers, raised \in BOOLEAN : batch_finish_ends(w, raised)

DispatchSpec == DispatchInit /\ [][DispatchNext]_vars

\* one worker of a module that is set up and started, whose scan neither stops nor
\* quarantines it
FairInit ==
    /\ Init
    /\ max_event_handlers = 1

\* the steps of a worker that the event loop takes once they are possible: a task
\* that is ready is run, and a callback that is awaited returns
FairWorker(w) ==
    \/ worker_holds(w)
    \/ worker_gets(w)
    \/ worker_get_returns(w)
    \/ worker_handles_batch(w)
    \/ \E outcome \in FilterOutcomes : filter_event_ends(w, outcome)
    \/ \E raised \in BOOLEAN : callback_ends(w, raised)
    \/ \E raised \in BOOLEAN : handle_batch_ends(w, raised)
    \/ \E raised \in BOOLEAN : batch_finish_ends(w, raised)

FairNext ==
    \/ _setup(SetupOutcome("status", "True"))
    \/ start
    \/ \E e \in {EvFinished, EvA} : queue_event(e)
    \/ dequeue_outgoing_event
    \/ \E w \in Workers, item \in Minted : emit_event(w, item)
    \/ \E w \in Workers : FairWorker(w)

\* fair scheduling: the scan sets the module up and starts it, the controller keeps
\* draining the outgoing queue, and every worker step that stays possible is taken;
\* nothing obliges the controller to call queue_event again
FairSpec ==
    /\ FairInit
    /\ [][FairNext]_vars
    /\ WF_vars(_setup(SetupOutcome("status", "True")))
    /\ WF_vars(start)
    /\ WF_vars(dequeue_outgoing_event)
    /\ \A w \in Workers : WF_vars(FairWorker(w))

\* the fair module, with a scan that may stop at any time
StopNext ==
    \/ FairNext
    \/ stop
    \/ \E w \in Workers : worker_stops(w)

\* fair scheduling as in FairSpec; a worker that reaches the top of its loop after
\* scan.stopping was set leaves it
StopSpec ==
    /\ FairInit
    /\ [][StopNext]_vars
    /\ WF_vars(_setup(SetupOutcome("status", "True")))
    /\ WF_vars(start)
    /\ WF_vars(dequeue_outgoing_event)
    /\ \A w \in Workers : WF_vars(FairWorker(w) \/ worker_stops(w))

(***************************************************************************)
(* Properties.                                                             *)
(***************************************************************************)
StartsHandler(w) ==
    /\ pc'[w] \in {"handle_event", "handle_batch"}
    /\ pc[w] \notin {"handle_event", "handle_batch"}

\* a step in which queue_event puts an event into the incoming queue
Delivers == Len(incoming') > Len(incoming)

\* a step in which the controller takes an item from the outgoing queue
Drains == Len(outgoing') < Len(outgoing)

\* C1: once errored is true it is true in every later state.
C1_ErroredMonotonic == [][errored => errored']_vars

\* C1 witness: the module is quarantined and a later call has run against it.
C1_Witness ==
    /\ errored
    /\ last = Call("queue_event", EvFinished, "disabled")
    /\ _cleanedup
    /\ _request_failures = 0

\* C2: from the first set_error_state on, the incoming queue is disabled and empty,
\* the getter does not re-create it, and a queue_event call, FINISHED included,
\* enqueues nothing.
C2_QuarantinePermanent ==
    /\ [](errored => /\ _incoming_event_queue = "False"
                     /\ incoming_event_queue = "False"
                     /\ incoming = <<>>
                     /\ num_incoming_events = 0)
    /\ [][errored => /\ errored'
                     /\ _incoming_event_queue' = "False"
                     /\ incoming' = <<>>
                     /\ (last' # last /\ last'.op = "queue_event"
                            => last'.result = "disabled")]_vars

\* C2 witness: FINISHED was offered to a quarantined module and dropped.
C2_Witness ==
    /\ errored
    /\ last = Call("queue_event", EvFinished, "disabled")
    /\ \E w \in Workers : pc[w] = "ended"


\* the callbacks _cleanup has invoked, then those its loop will still invoke
CleanupPlan == called \o SelectSeq(cleanup_todo, callable)

\* C3: _cleanedup goes from false to true once; the first _cleanup call invokes
\* cleanup and then each registered callback once, in registration order, whatever
\* the callbacks do and whatever other _cleanup calls overlap it.
C3_CleanupOnce ==
    /\ [](~_cleanedup => called = <<>> /\ cleanup_running = "")
    /\ [](_cleanedup /\ cleanup_running = "" => cleanup_todo = <<>>)
    /\ [][/\ ~_cleanedup /\ _cleanedup'
             => /\ called' = <<"cleanup">>
                /\ CleanupPlan' = SelectSeq(cleanup_list, callable)
          /\ _cleanedup
             => /\ _cleanedup'
                /\ CleanupPlan' = CleanupPlan
                /\ \/ called' = called
                   \/ /\ cleanup_todo # <<>>
                      /\ called' = Append(called, Head(SelectSeq(cleanup_todo, callable)))]_vars

\* C3 witness: two callbacks registered, a second _cleanup call made while the first
\* was running, and every callback invoked once, in order.
C3_Witness ==
    /\ cleanup_callbacks = <<"callback_a", "callback_b">>
    /\ called = <<"cleanup", "callback_a", "callback_b">>
    /\ cleanup_running = "callback_b"
    /\ last = Call("_cleanup", NoEvent, "again")

\* C4: task_counter is the number of handle_event, handle_batch, finish, report and
\* cleanup invocations in flight, in both arms.
C4_TaskCounterCountsInFlight == task_counter = InFlight

\* C5: once finished reads true it reads true until queue_event delivers an event.
C5_FinishedStable == [][finished /\ ~Delivers => finished']_vars

\* line 313's condition, written out
GateClosed == _qsize > 0 /\ Len(outgoing) >= _qsize

\* C6 as claimed: no handle_event or handle_batch invocation begins while the
\* outgoing queue holds at least _qsize items.
C6_NoHandlerWhileFull == [][\A w \in Workers : StartsHandler(w) => ~GateClosed]_vars

\* C6 as amended: the gate is tested once, at the top of a loop iteration.  A
\* worker that finds the outgoing queue holding at least _qsize items there begins
\* no handler: it waits on event_dequeued (or ends, the scan stopping), and no
\* handler begins in a step of a worker waiting there.
C6_GateHolds ==
    [][\A w \in Workers :
          /\ pc[w] = "loop" /\ GateClosed /\ pc'[w] # "loop"
             => pc'[w] \in {"event_dequeued.wait", "ended"}
          /\ StartsHandler(w)
             => /\ pc[w] # "event_dequeued.wait"
                /\ ~(pc[w] = "loop" /\ GateClosed)]_vars

\* C6 witness: a worker waits at the gate, the outgoing queue full and input pending.
C6_Witness ==
    \E w \in Workers :
        /\ pc[w] = "event_dequeued.wait"
        /\ GateClosed
        /\ incoming # <<>>

\* C7: dequeue_outgoing_event takes one item and notifies event_dequeued: the
\* oldest worker waiting at the gate is woken.
C7_DrainWakes ==
    [][Drains => /\ Len(outgoing') = Len(outgoing) - 1
                 /\ event_dequeued # <<>>
                    => pc'[Head(event_dequeued)] # "event_dequeued.wait"]_vars

\* C8: a queue_event call whose event pre-check rejects puts nothing in the incoming
\* queue and notifies nobody.
C8_PrecheckEnforced ==
    [][/\ last' # last
       /\ last'.op = "queue_event"
       /\ ~_event_precheck(Self(module, errored), last'.arg).acceptable
       => /\ incoming' = incoming
          /\ event_received' = event_received
          /\ pc' = pc]_vars

\* C8 witness: an event of a type the module does not watch was offered and rejected.
C8_Witness ==
    /\ last = Call("queue_event", EvUnwatched, "rejected")
    /\ _tasks # {}
    /\ event_received # <<>>

\* C9: an event a handler is called with was accepted by post-check, in both arms.
C9_PostcheckEnforced ==
    \A w \in Workers :
        /\ pc[w] \in {"handle_event", "handle_batch"} => passed[w]
        /\ pc[w] = "handle_event"
           => \E outcome \in FilterOutcomes :
                  _event_postcheck(Self(module, errored), event[w], outcome).acceptable
        /\ pc[w] = "handle_batch"
           => \A i \in 1..Len(events[w]) : \E outcome \in FilterOutcomes :
                  _event_postcheck(Self(module, errored), events[w][i], outcome).acceptable

\* C9 witness: the far event was enqueued last, a worker took it, and no handler runs.
C9_Witness ==
    /\ ~errored
    /\ last = Call("queue_event", EvFar, "enqueued")
    /\ incoming = <<>>
    /\ _tasks # {}
    /\ \A w \in _tasks : pc[w] \in {"get", "loop", "event_received.wait"}

\* C10: pre-check and post-check accept a FINISHED event whatever the module's
\* attributes and error state; it is not checked by filter_event, not passed to
\* handle_event and not put in a batch: the callback it leads to is finish.
C10_FinishedOnlyFinishes ==
    /\ \A e \in FinishedEvents :
           /\ _event_precheck(Self(module, errored), e).acceptable
           /\ postcheck_before_filter(Self(module, errored), e) # Undecided
           /\ \A outcome \in FilterOutcomes :
                  _event_postcheck(Self(module, errored), e, outcome).acceptable
    /\ last.op = "queue_event" /\ last.arg.type = "FINISHED" => last.result # "rejected"
    /\ \A w \in Workers :
           /\ pc[w] \in {"filter_event", "handle_event"} => event[w].type # "FINISHED"
           /\ \A i \in 1..Len(events[w]) : events[w][i].type # "FINISHED"
           /\ event[w].type = "FINISHED" => pc[w] = "finish"

\* C10 witness: finish runs for a FINISHED event that is out of scope, tagged target
\* and not whitelisted, in a quarantined module whose other checks would reject it.
C10_Witness ==
    \E w \in Workers :
        /\ pc[w] = "finish"
        /\ event[w] = EvFinishedFar
        /\ errored
        /\ module.target_only /\ module.in_scope_only
        /\ "active" \in module.flags
        /\ module.watched_events = {"IP_RANGE", "IP_ADDRESS"}

\* the events a worker takes from the incoming queue in a step
Dequeued ==
    IF errored' = errored /\ Len(incoming') < Len(incoming)
    THEN SubSeq(incoming, 1, Len(incoming) - Len(incoming'))
    ELSE <<>>

\* the finish() invocations that begin in a step
FinishStarts == Cardinality({w \in Workers : pc'[w] = "finish" /\ pc[w] # "finish"})

\* the finish flags events_waiting / _handle_batch hold: FINISHED events observed
\* whose finish() has not begun
FinishOwed == Cardinality({w \in Workers : finish[w]})

\* C11: finish() invocations never outnumber the FINISHED events dequeued (every
\* step begins at most as many as it dequeues or has flagged, and a flag is raised
\* only by a FINISHED dequeued); a handle_batch call with the flag set is followed
\* by one finish(), after which the batch is dropped.
C11_FinishPerFinished ==
    /\ [][FinishStarts + FinishOwed'
            <= FinishOwed + Len(SelectSeq(Dequeued, LAMBDA e : e.type = "FINISHED"))]_vars
    /\ [][\A w \in Workers :
            /\ pc[w] = "handle_batch" /\ pc'[w] # "handle_batch"
               => /\ pc'[w] = IF finish[w] THEN "finish" ELSE "loop"
                  /\ ~finish'[w]
                  /\ events'[w] = IF finish[w] THEN events[w] ELSE <<>>
            /\ pc[w] = "finish" /\ pc'[w] # "finish"
               => /\ pc'[w] \in {"loop", "event_received.wait"}
                  /\ events'[w] = <<>> /\ ~finish'[w]]_vars

\* C11 witness: one events_waiting call drained A, B and FINISHED; handle_batch(A, B)
\* has returned and finish() runs, the flag cleared and the queue empty.
C11_Witness ==
    \E w \in Workers :
        /\ batch_size = 2
        /\ pc[w] = "finish"
        /\ events[w] = <<EvA, EvB>>
        /\ ~finish[w]
        /\ incoming = <<>>
        /\ last = Call("queue_event", EvFinished, "enqueued")

\* the elements of a sequence
Range(seq) == {seq[i] : i \in 1..Len(seq)}

RequestStep ==
    /\ last'.op = "request_with_fail_count"
    /\ last' # last \/ _request_failures' # _request_failures

\* C13: _request_failures counts the None responses since the last response that was
\* not None; the call that brings it to failed_request_abort_threshold quarantines
\* the module (errored set, incoming queue disabled and empty), no earlier call does.
C13_FailureQuarantine ==
    /\ [](_request_failures >= AbortThreshold => errored /\ _incoming_event_queue = "False")
    /\ [][RequestStep
            => /\ _request_failures' = IF last'.result = "None" THEN _request_failures + 1
                                                                ELSE 0
               /\ errored' = (errored \/ _request_failures' >= AbortThreshold)
               /\ ~errored /\ errored'
                  => /\ last'.result = "None"
                     /\ _request_failures' = AbortThreshold
                     /\ _incoming_event_queue' = "False"
                     /\ incoming' = <<>>]_vars

\* C13 witness: the count stands at the threshold, the module is quarantined and a
\* queue_event call made since was dropped.
C13_Witness ==
    /\ _request_failures = AbortThreshold
    /\ errored
    /\ _incoming_event_queue = "False"
    /\ last = Call("queue_event", EvNear, "disabled")

\* a step in which _setup returns; last'.arg is what setup() did
SetupStep == setup_returned = NotSetUp /\ setup_returned' # NotSetUp

\* C14: _setup's status is what setup() returned (alone or in a pair), False when it
\* raised an error other than WordlistError, None when it raised WordlistError; the
\* message of a pair is passed through, and the message of an error is its text.
C14_SetupStatus ==
    [][SetupStep
        => /\ last'.op = "_setup"
           /\ last'.arg.kind \in {"status", "pair"}
              => setup_returned'.status = last'.arg.status
           /\ last'.arg.kind = "pair" => setup_returned'.msg = "msg"
           /\ last'.arg.kind = "Exception"
              => setup_returned' = SetupResult("False", "boom")
           /\ last'.arg.kind = "WordlistError"
              => setup_returned' = SetupResult("None", "missing list")]_vars

\* C14 witness: setup raised WordlistError("missing list") and _setup returned
\* (None, "missing list").
C14_Witness ==
    /\ last = Call("_setup", SetupOutcome("WordlistError", "missing list"), "returned")
    /\ setup_returned = SetupResult("None", "missing list")

\* C15: once _setup has returned a status other than True, the module is errored and
\* its incoming queue is disabled.
C15_SetupFailureQuarantines ==
    setup_returned # NotSetUp /\ setup_returned.status # "True"
    => errored /\ _incoming_event_queue = "False"

\* the callbacks in flight that were entered inside `with self._task_counter`
Counted ==
    Cardinality({w \in Workers :
                    \/ pc[w] \in {"handle_event", "handle_batch"}
                    \/ pc[w] = "finish" /\ batch_size <= 1})
        + (IF cleanup_running # "" THEN 1 ELSE 0)

\* C16: task_counter is the number of counted callbacks in flight, so a callback that
\* ends, by returning or by raising, gives back what entering it took; the step in
\* which handle_event, handle_batch, finish or filter_event ends leaves errored as it
\* was and the worker in its loop, not ended.
C16_CallbackErrorsIsolated ==
    /\ [](task_counter = Counted)
    /\ [][\A w \in Workers :
            pc[w] \in {"handle_event", "handle_batch", "finish", "filter_event"}
            /\ pc'[w] # pc[w]
            => /\ errored' = errored
               /\ pc'[w] \in {"loop", "event_received.wait", "handle_event",
                               "handle_batch", "finish", "filter_event"}
               /\ pc[w] = "handle_event" => pc'[w] = "loop"
               /\ _tasks' = _tasks]_vars

\* C16 witness: handle_batch(A) has ended and the same worker has gone on to
\* finish(), the counter back at 0 and the module not errored.
C16_Witness ==
    \E w \in Workers :
        /\ max_event_handlers = 1
        /\ batch_size = 2
        /\ pc[w] = "finish"
        /\ events[w] = <<EvA>>
        /\ task_counter = 0
        /\ ~errored

\* C17: an emit_event call whose event scan.make_event found invalid adds nothing to
\* the outgoing queue: no item of the queue is (None, kwargs).
C17_InvalidEventDropped == \A i \in 1..Len(outgoing) : outgoing[i] # "None"

\* the events a worker's handle_event or handle_batch is running on
Handled(w) ==
    IF pc[w] = "handle_event" THEN {event[w]}
    ELSE IF pc[w] = "handle_batch" THEN Range(events[w])
    ELSE {}

\* max_scope_distance as the claim states it
ClaimedMaxScopeDistance ==
    IF module.in_scope_only \/ module.target_only THEN 0
    ELSE IF module.scope_search_distance + module.scope_distance_modifier[1] > 0
    THEN module.scope_search_distance + module.scope_distance_modifier[1]
    ELSE 0

\* C18: in a module whose _type is not output, an event a handler runs on satisfies
\* in_scope_only => scope_distance <= 0, and scope_distance_modifier not None =>
\* 0 <= scope_distance <= max_scope_distance.
C18_ScopeGate ==
    \A w \in Workers : \A e \in Handled(w) :
        module._type # "output"
        => /\ module.in_scope_only => e.scope_distance <= 0
           /\ module.scope_distance_modifier # None
              => /\ 0 <= e.scope_distance
                 /\ e.scope_distance <= ClaimedMaxScopeDistance

\* C18 witness: an in_scope_only module was last given the event at distance 1; its
\* worker has taken it from the queue and is back waiting in get().
C18_Witness ==
    \E w \in Workers :
        /\ module._type = "scan" /\ module.in_scope_only
        /\ module.scope_distance_modifier = Some(1)
        /\ last = Call("queue_event", EvAt(1), "enqueued")
        /\ incoming = <<>>
        /\ pc[w] = "get"

\* an IP_ADDRESS whose source is an IP_RANGE and whose producer is speculate
SpeculatedFromRange(e) ==
    e.type = "IP_ADDRESS" /\ e.source_type = "IP_RANGE" /\ e.module = "speculate"

\* a module other than speculate whose watched_events holds IP_RANGE and IP_ADDRESS
ConsumesRanges(m) ==
    m.name # "speculate" /\ {"IP_RANGE", "IP_ADDRESS"} \subseteq m.watched_events

\* C19: a module other than speculate that watches both IP_RANGE and IP_ADDRESS never
\* has an address speculated from a range in its incoming queue or in a worker's
\* hands, queue_event never enqueues one, and when the module is not quarantined
\* pre-check rejects it with the reason "module consumes IP ranges directly".
C19_CidrDedup ==
    ConsumesRanges(module) =>
        /\ \A i \in 1..Len(incoming) : ~SpeculatedFromRange(incoming[i])
        /\ \A w \in Workers :
               /\ ~SpeculatedFromRange(event[w])
               /\ \A i \in 1..Len(events[w]) : ~SpeculatedFromRange(events[w][i])
        /\ last.op = "queue_event" /\ SpeculatedFromRange(last.arg)
              => last.result # "enqueued"
        /\ ~_event_precheck(Self(module, errored), EvSpeculated).acceptable
        /\ ~errored => _event_precheck(Self(module, errored), EvSpeculated)
                          = Verdict(FALSE, <<"module consumes IP ranges directly">>)

\* C19 witness: a started, healthy module named mod that watches exactly IP_RANGE and
\* IP_ADDRESS was just offered the speculated address, and its queue is still empty.
C19_Witness ==
    /\ module.watched_events = {"IP_RANGE", "IP_ADDRESS"}
    /\ module.name = "mod"
    /\ ~errored /\ setup_returned.status = "True" /\ _tasks # {}
    /\ incoming_event_queue = "Queue"
    /\ last = Call("queue_event", EvSpeculated, "rejected")
    /\ incoming = <<>>

\* C20: while the scan is not stopping and the module is not quarantined, an event in
\* the incoming queue is eventually dequeued by a worker: the queue does not stay
\* non-empty for ever while the workers take nothing more from it.
C20_NoStrandedEvent ==
    \/ []<>(incoming = <<>> \/ stopping \/ errored)
    \/ []<><<Dequeued # <<>>>>_vars

\* a step in which worker w's events_waiting returns an empty batch with no FINISHED
\* seen, in a module that is not quarantined: _handle_batch submits nothing
EmptyBatchReturns(w) ==
    /\ batch_size > 1
    /\ ~errored /\ ~errored'
    /\ \/ pc[w] = "loop" /\ num_incoming_events > 0
       \/ pc[w] = "filter_event"
    /\ pc'[w] \in {"report", "event_received.wait"}

\* C21: a batch-arm iteration that saw no FINISHED event and assembled an empty batch
\* invokes report() (the code reads no clock: whatever the time since the last
\* submission, the iteration does the same).
C21_ReportWhenIdle ==
    [][\A w \in Workers : EmptyBatchReturns(w) => pc'[w] = "report"]_vars

\* how many times e occurs in a sequence of events
Count(e, seq) == Cardinality({i \in 1..Len(seq) : seq[i] = e})

\* the events a worker holds: the batch it has collected and the event it is
\* checking or handling
Held(w) == IF event[w] = NoEvent THEN events[w] ELSE Append(events[w], event[w])

\* what every worker holds, and how many times e is held by the workers 1..n
AllHeld == [w \in Workers |-> Held(w)]

RECURSIVE HeldTimes(_, _, _)
HeldTimes(e, held, n) ==
    IF n = 0 THEN 0 ELSE Count(e, held[n]) + HeldTimes(e, held, n - 1)

\* the handle_event and handle_batch invocations in flight
HandlersInFlight == {w \in Workers : pc[w] \in {"handle_event", "handle_batch"}}

\* C22: start() creates exactly max_event_handlers workers; at most max_event_handlers
\* handle_event and handle_batch invocations are in flight at a time; and a dequeued
\* event is held by one worker only: in every step each event is held, over all
\* workers, at most as often as it was held before plus as often as it was dequeued
\* in the step, and only the worker that dequeues gains an event.
C22_BoundedHandlers ==
    /\ [](/\ Cardinality(HandlersInFlight) <= max_event_handlers
          /\ Cardinality(_tasks) \in {0, max_event_handlers}
          /\ \A w \in Workers : w \notin _tasks => pc[w] = "unborn" /\ Held(w) = <<>>)
    /\ [][/\ _tasks' # _tasks =>
                /\ Cardinality(_tasks') = max_event_handlers
                /\ \A w \in Workers : pc'[w] = IF w \in _tasks' THEN "loop" ELSE "unborn"
          /\ \A w \in Workers :
                Len(Held(w)') > Len(Held(w)) =>
                    /\ Dequeued # <<>>
                    /\ \A v \in Workers \ {w} : Held(v)' = Held(v)
          /\ \A e \in DispatchEvents :
                HeldTimes(e, AllHeld', MaxHandlers)
                    <= HeldTimes(e, AllHeld, MaxHandlers) + Count(e, Dequeued)]_vars

\* C22 witness: a module with max_event_handlers = 2 whose two workers each run
\* handle_event, one on A and one on B.
C22_Witness ==
    /\ max_event_handlers = 2
    /\ Cardinality(_tasks) = 2
    /\ pc[1] = "handle_event" /\ event[1] = EvA
    /\ pc[2] = "handle_event" /\ event[2] = EvB

\* C23: once scan.stopping is true, every worker task of the module eventually ends.
C23_StoppingEndsWorkers ==
    [](stopping => <>(\A w \in _tasks : pc[w] = "ended"))

\* filter_event returned a true verdict: True, or a pair whose first element is True
TrueVerdict(outcome) == outcome.kind \in {"bool", "pair"} /\ outcome.value

\* after the step, worker w's handler runs on the event it was checking, or the
\* event is in the batch it will hand to handle_batch
KeptForHandler(w) ==
    \/ pc'[w] = "handle_event" /\ event'[w] = event[w]
    \/ /\ batch_size > 1
       /\ Len(events'[w]) > Len(events[w])
       /\ events'[w][Len(events[w]) + 1] = event[w]

\* C24: an event on which filter_event did not return a true verdict, the call that
\* raised included, is not passed to handle_event and not put in the batch for
\* handle_batch.
C24_FilterVerdictEnforced ==
    [][\A w \in Workers, outcome \in FilterOutcomes :
          filter_event_ends(w, outcome) /\ ~TrueVerdict(outcome) => ~KeptForHandler(w)]_vars

====
